---- MODULE Spec2Model ----
(***************************************************************************)
(* A model of efficient_apriori/itemsets.py: the sorted-block join         *)
(* (join_step), the downward-closure filter (prune_step), their            *)
(* composition (apriori_gen) and the level-wise mining driver              *)
(* (itemsets_from_transactions).                                           *)
(*                                                                         *)
(* Data.  An itemset is a tuple of items (naturals, compared as Python     *)
(* compares ints and tuples).  A dict is the sequence of its entries       *)
(* <<key, value>> in insertion order.  large_itemsets is the sequence of   *)
(* its levels, level k at index k; the empty dict() of the early return    *)
(* is <<>>.  Rows are numbered from 1 (enumerate numbers them from 0).     *)
(* min_support is num / MsDen when it is a number, so that                 *)
(* (c / num_transactions) >= min_support is c * MsDen >= num * N, which    *)
(* is exact for a float that is the correctly rounded value of num/MsDen.  *)
(***************************************************************************)
EXTENDS Integers, Sequences, FiniteSets, TLC

\* ------------------------------------------------------------------ bounds
MaxItem == 3
MaxTrans == 2
MaxCells == 4
MsDen == 2
GenMaxItem == 5
GenMaxLen == 5

VARIABLES
    shape,            \* what the caller passed as `transactions`
    transactions,     \* the records the source holds, in order
    min_support,      \* [number, num]: num / MsDen, or not a number
    pc,               \* "call", "step1", "step2", "returned", "raised"
    error,            \* "none", "TypeError", "ValueError"
    reads,            \* records of the source iterated so far by the call
    transaction_sets, \* line 191: the cached sets of the collection form
    use_transaction,  \* line 217: row -> consider it
    scanned,          \* rows tested against candidates by the latest pass
    num_transactions, \* line 222
    large_itemsets,   \* lines 228-233, 288
    k,                \* line 243
    gen_pc,           \* "input", "joined", "pruned"
    gen_itemsets,     \* the list handed to join_step / prune_step
    gen_possible,     \* list(join_step(gen_itemsets))
    gen_out           \* list(apriori_gen(gen_itemsets))

mine_vars == <<shape, transactions, min_support, pc, error, reads,
               transaction_sets, use_transaction, scanned,
               num_transactions, large_itemsets, k>>
gen_vars == <<gen_pc, gen_itemsets, gen_possible, gen_out>>
vars == <<mine_vars, gen_vars>>

\* --------------------------------------------------------- Python built-ins
Range(s) == {s[i] : i \in DOMAIN s}

Front(s) == SubSeq(s, 1, Len(s) - 1)

Last(s) == s[Len(s)]

RECURSIVE Flatten(_)
Flatten(ss) ==
    IF ss = <<>> THEN <<>> ELSE Head(ss) \o Flatten(Tail(ss))

\* The keys of a dict filled by visiting s in order: first occurrences.
Keys(s) ==
    LET first == {i \in DOMAIN s : \A j \in 1..(i - 1) : s[j] # s[i]}
        RECURSIVE Pick(_)
        Pick(i) == IF i > Len(s) THEN <<>>
                   ELSE (IF i \in first THEN <<s[i]>> ELSE <<>>) \o Pick(i + 1)
    IN Pick(1)

Occurrences(s, x) == Cardinality({i \in DOMAIN s : s[i] = x})

\* Python's < on two tuples of ints.
RECURSIVE TupleLess(_, _)
TupleLess(a, b) ==
    IF a = <<>> THEN b # <<>>
    ELSE IF b = <<>> THEN FALSE
    ELSE IF Head(a) # Head(b) THEN Head(a) < Head(b)
    ELSE TupleLess(Tail(a), Tail(b))

\* Python's < on two (itemset, count) pairs.
EntryLess(x, y) ==
    TupleLess(x[1], y[1]) \/ (x[1] = y[1] /\ x[2] < y[2])

\* sorted() of a list of tuples of ints (stable).
sorted(s) ==
    LET before(i, j) == TupleLess(s[i], s[j])
                        \/ (~TupleLess(s[j], s[i]) /\ i < j)
        rank(i) == 1 + Cardinality({j \in DOMAIN s : before(j, i)})
    IN [p \in 1..Len(s) |-> s[CHOOSE i \in DOMAIN s : rank(i) = p]]

\* sorted() of a list of (itemset, count) pairs (stable).
sorted_entries(s) ==
    LET before(i, j) == EntryLess(s[i], s[j])
                        \/ (~EntryLess(s[j], s[i]) /\ i < j)
        rank(i) == 1 + Cardinality({j \in DOMAIN s : before(j, i)})
    IN [p \in 1..Len(s) |-> s[CHOOSE i \in DOMAIN s : rank(i) = p]]

\* itertools.combinations(t, 2): pairs of positions p < q, in position order.
combinations2(t) ==
    LET RECURSIVE From(_, _)
        From(p, q) ==
            IF p >= Len(t) THEN <<>>
            ELSE IF q > Len(t) THEN From(p + 1, p + 2)
            ELSE <<(<<t[p], t[q]>>)>> \o From(p, q + 1)
    IN From(1, 2)

\* list(set(t)) for a record t; the order of a set's iteration is immaterial
\* to every use the driver makes of it, the ascending one is taken.
set_of(t) ==
    LET RECURSIVE Asc(_)
        Asc(S) == IF S = {} THEN <<>>
                  ELSE LET m == CHOOSE x \in S : \A y \in S : x <= y
                       IN <<m>> \o Asc(S \ {m})
    IN Asc(Range(t))

\* ---------------------------------------------------------------- join_step
\* Lines 43-69: the tail items of the block that starts at position i: the
\* last item of itemsets[i], then that of every following itemset up to the
\* first one whose first k - 1 items differ (the break).
tail_items(its, i) ==
    LET itemset_first == Front(its[i])
        differ == {j \in (i + 1)..Len(its) : Front(its[j]) # itemset_first}
        stop == IF differ = {} THEN Len(its) + 1
                ELSE CHOOSE j \in differ : \A j2 \in differ : j <= j2
    IN [p \in 1..(stop - i) |-> Last(its[i + p - 1])]

\* The slip of advancing by one itemset instead of by the block.
next_i_by_one(i, skip) == i + 1

\* Line 78: i += skip.
next_i(i, skip) == i + skip

\* Lines 35-78: the candidates join_step yields, in the order it yields them.
RECURSIVE join_from(_, _)
join_from(its, i) ==
    IF ~(i <= Len(its)) THEN <<>>
    ELSE LET itemset_first == Front(its[i])
             tails == tail_items(its, i)
             skip == Len(tails)
             pairs == sorted(combinations2(tails))
             yielded == [p \in 1..Len(pairs) |->
                            itemset_first \o <<pairs[p][1]>> \o <<pairs[p][2]>>]
         IN yielded \o join_from(its, next_i(i, skip))

join_step(its) == join_from(its, 1)

\* --------------------------------------------------------------- prune_step
\* The slip of leaving the last three positions unchecked, not the last two.
checked_positions_short(possible_itemset) == 1..(Len(possible_itemset) - 3)

\* Line 113: range(len(possible_itemset) - 2), as 1-based positions.
checked_positions(possible_itemset) == 1..(Len(possible_itemset) - 2)

\* Line 114: possible_itemset[:i] + possible_itemset[i + 1:], i 1-based here.
removed(possible_itemset, i) ==
    SubSeq(possible_itemset, 1, i - 1)
        \o SubSeq(possible_itemset, i + 1, Len(possible_itemset))

\* Lines 103-127: the candidates prune_step yields, in order.
prune_step(its, possible_itemsets) ==
    LET lookup == Range(its)
        kept(c) == \A i \in checked_positions(c) : removed(c, i) \in lookup
    IN SelectSeq(possible_itemsets, kept)

\* Lines 151-152.
apriori_gen(its) == prune_step(its, join_step(its))

\* ----------------------------------------------- itemsets_from_transactions
\* What the caller may pass as `transactions`: an iterable of records, a
\* callable returning a generator over the records, a callable returning an
\* iterable that is no generator (a list), or a value of neither kind.
Shapes == {"collection", "generator_fn", "iterable_fn", "other"}

\* Line 190: isinstance(transactions, collections.Iterable).
is_iterable(sh) == sh = "collection"

\* Line 197: isinstance(transactions, collections.Callable).
is_callable(sh) == sh \in {"generator_fn", "iterable_fn"}

\* Line 199: isinstance(ret_value, collections.Generator).
returns_generator(sh) == sh = "generator_fn"

\* Line 191: [set(t) for t in transactions if len(t) > 0].
normalise(ts) ==
    LET nonempty(t) == Len(t) > 0
        kept == SelectSeq(ts, nonempty)
    IN [r \in 1..Len(kept) |-> set_of(kept[r])]

\* Lines 210-211: isinstance(min_support, Number) and 0 <= min_support <= 1.
valid_min_support(ms) == ms.number /\ 0 <= ms.num /\ ms.num <= MsDen

\* What transactions() yields once step 0 is over: the cached sets (lines
\* 193-194) or the records of the caller's generator.
rows_of(sh, ts, sets) == IF is_iterable(sh) THEN sets ELSE ts

\* Lines 229 and 280: (c / num_transactions) >= min_support.
meets(c, n, ms) == c * MsDen >= ms.num * n

\* The entries of a defaultdict(int) that was incremented once per element
\* of hits, in insertion order.
counted(hits) ==
    LET keys == Keys(hits)
    IN [p \in 1..Len(keys) |-> <<keys[p], Occurrences(hits, keys[p])>>]

\* Lines 221-233: the first level, or <<>> when no item is large.
level_one(rows, ms) ==
    LET counts == counted(Flatten(rows))
        n == Len(rows)
        large(e) == meets(e[2], n, ms)
        ordered == sorted(SelectSeq(counts, large))
    IN [p \in 1..Len(ordered) |-> <<(<<ordered[p][1]>>), ordered[p][2]>>]

\* Lines 249-252: the candidates of the next length.
candidates(level) ==
    LET itemsets_list == [p \in 1..Len(level) |-> level[p][1]]
    IN prune_step(itemsets_list, join_step(itemsets_list))

\* The slip of swapping the arguments of the subset test.
is_subset_swapped(candidate, transaction) ==
    Range(transaction) \subseteq Range(candidate)

\* Line 269: set.issubset(candidate_set, transaction).
is_subset(candidate, transaction) ==
    Range(candidate) \subseteq Range(transaction)

\* Lines 265-271: the candidates one row increments, in order.
matches(C_k, transaction) ==
    LET hit(c) == is_subset(c, transaction)
    IN SelectSeq(C_k, hit)

\* The slip of retiring the rows that did match.
next_use_inverted(C_k, rows, use) ==
    [r \in 1..Len(rows) |-> use[r] /\ matches(C_k, rows[r]) = <<>>]

\* Lines 260-261 and 275-276: the mask after a pass.
next_use(C_k, rows, use) ==
    [r \in 1..Len(rows) |-> use[r] /\ matches(C_k, rows[r]) # <<>>]

\* Lines 256-288: the level a pass over the rows builds, <<>> when no
\* candidate is large (the break of line 284).
next_level(C_k, rows, use, n, ms) ==
    LET hits == Flatten([r \in 1..Len(rows) |->
                            IF use[r] THEN matches(C_k, rows[r]) ELSE <<>>])
        large(e) == meets(e[2], n, ms)
    IN sorted_entries(SelectSeq(counted(hits), large))

\* Lines 244-289: the loop, from the levels built so far.  With masked
\* false the mask is left all true: every row is scanned at every level.
RECURSIVE grow(_, _, _, _, _, _)
grow(levels, rows, use, n, ms, masked) ==
    LET C_k == candidates(levels[Len(levels)])
        level == next_level(C_k, rows, use, n, ms)
    IN IF level = <<>> THEN levels
       ELSE grow(Append(levels, level), rows,
                 IF masked THEN next_use(C_k, rows, use) ELSE use,
                 n, ms, masked)

\* Lines 190-291 on valid input: the levels returned.
mine(sh, ts, ms, masked) ==
    LET rows == rows_of(sh, ts, normalise(ts))
        first == level_one(rows, ms)
    IN IF first = <<>> THEN <<>>
       ELSE grow(<<first>>, rows, [r \in 1..Len(rows) |-> TRUE],
                 Len(rows), ms, masked)

\* ------------------------------------------------------------------ inputs
Items == 1..MaxItem

\* A record is a finite sequence of items; the driver reads a record only
\* through set(t), len(t), iteration with counting and issubset, none of
\* which see the order of its items, so records are taken non-decreasing.
\* Items may repeat in a record.
RecordsOfLen(n) ==
    {t \in [1..n -> Items] : \A i \in 1..(n - 1) : t[i] <= t[i + 1]}

\* The sources of at most `rows` records holding at most `cells` items in all.
RECURSIVE PayloadsWithin(_, _)
PayloadsWithin(rows, cells) ==
    IF rows = 0 THEN {<<>>}
    ELSE {<<>>} \cup
         UNION {{<<t>> \o rest : t \in RecordsOfLen(n),
                                 rest \in PayloadsWithin(rows - 1, cells - n)}
                : n \in 0..cells}

MinSupports ==
    {[number |-> TRUE, num |-> p] : p \in (0 - 1)..(MsDen + 1)}
        \cup {[number |-> FALSE, num |-> 0]}

\* The strictly increasing itemsets over the items 1..GenMaxItem.
GenItemsets ==
    UNION {{t \in [1..len -> 1..GenMaxItem] :
               \A i \in 1..(len - 1) : t[i] < t[i + 1]}
           : len \in 1..GenMaxItem}

\* ------------------------------------------------------------- the driver
\* A source the driver rejects (a callable returning a list) holds at most
\* one record here: its records are never read.
Rows == rows_of(shape, transactions, transaction_sets)

Init ==
    /\ shape \in Shapes
    /\ transactions \in
          (IF shape = "other" THEN {<<>>}
           ELSE IF shape = "iterable_fn" THEN PayloadsWithin(1, MaxCells)
           ELSE PayloadsWithin(MaxTrans, MaxCells))
    /\ min_support \in MinSupports
    /\ pc = "call"
    /\ error = "none"
    /\ reads = 0
    /\ transaction_sets = <<>>
    /\ use_transaction = <<>>
    /\ scanned = {}
    /\ num_transactions = 0
    /\ large_itemsets = <<>>
    /\ k = 0
    /\ gen_pc = "idle"
    /\ gen_itemsets = <<>>
    /\ gen_possible = <<>>
    /\ gen_out = <<>>

\* Lines 186-217: step 0.
Sanitize ==
    /\ pc = "call"
    /\ LET sets == IF is_iterable(shape) THEN normalise(transactions) ELSE <<>>
           type_error == ~is_iterable(shape)
                         /\ ~(is_callable(shape) /\ returns_generator(shape))
           value_error == ~type_error /\ ~valid_min_support(min_support)
           raised == type_error \/ value_error
       IN /\ transaction_sets' = sets
          /\ reads' = IF is_iterable(shape) THEN Len(transactions) ELSE 0
          /\ error' = IF type_error THEN "TypeError"
                      ELSE IF value_error THEN "ValueError" ELSE "none"
          /\ pc' = IF raised THEN "raised" ELSE "step1"
          /\ use_transaction' =
                IF raised THEN <<>>
                ELSE [r \in 1..Len(rows_of(shape, transactions, sets)) |-> TRUE]
    /\ UNCHANGED <<shape, transactions, min_support, scanned,
                   num_transactions, large_itemsets, k, gen_vars>>

\* Lines 221-237: step 1.
Step1 ==
    /\ pc = "step1"
    /\ LET first == level_one(Rows, min_support)
       IN /\ num_transactions' = Len(Rows)
          /\ large_itemsets' = IF first = <<>> THEN <<>> ELSE <<first>>
          /\ pc' = IF first = <<>> THEN "returned" ELSE "step2"
          /\ k' = IF first = <<>> THEN k ELSE 2
    /\ reads' = reads + (IF is_iterable(shape) THEN 0 ELSE Len(transactions))
    /\ UNCHANGED <<shape, transactions, min_support, error, transaction_sets,
                   use_transaction, scanned, gen_vars>>

\* Lines 244-289: one turn of the while loop of step 2.
Step2 ==
    /\ pc = "step2"
    /\ LET C_k == candidates(large_itemsets[k - 1])
           level == next_level(C_k, Rows, use_transaction,
                               num_transactions, min_support)
       IN /\ use_transaction' = next_use(C_k, Rows, use_transaction)
          /\ scanned' = {r \in 1..Len(Rows) : use_transaction[r]}
          /\ large_itemsets' = IF level = <<>> THEN large_itemsets
                               ELSE Append(large_itemsets, level)
          /\ pc' = IF level = <<>> THEN "returned" ELSE "step2"
          /\ k' = IF level = <<>> THEN k ELSE k + 1
    /\ reads' = reads + (IF is_iterable(shape) THEN 0 ELSE Len(transactions))
    /\ UNCHANGED <<shape, transactions, min_support, error, transaction_sets,
                   num_transactions, gen_vars>>

Next == Sanitize \/ Step1 \/ Step2

Spec == Init /\ [][Next]_vars

\* ------------------------------------------- join and prune on their own
GenInit ==
    /\ gen_pc = "input"
    /\ gen_itemsets = <<>>
    /\ gen_possible = <<>>
    /\ gen_out = <<>>
    /\ shape = "other"
    /\ transactions = <<>>
    /\ min_support = [number |-> FALSE, num |-> 0]
    /\ pc = "idle"
    /\ error = "none"
    /\ reads = 0
    /\ transaction_sets = <<>>
    /\ use_transaction = <<>>
    /\ scanned = {}
    /\ num_transactions = 0
    /\ large_itemsets = <<>>
    /\ k = 0

\* The caller builds the argument: a sorted, duplicate-free list of at most
\* GenMaxLen itemsets of one length, one itemset at a time.
GenAppend ==
    /\ gen_pc = "input"
    /\ Len(gen_itemsets) < GenMaxLen
    /\ \E itemset \in GenItemsets :
          /\ IF gen_itemsets = <<>> THEN TRUE
             ELSE /\ Len(itemset) = Len(gen_itemsets[1])
                  /\ TupleLess(gen_itemsets[Len(gen_itemsets)], itemset)
          /\ gen_itemsets' = Append(gen_itemsets, itemset)
    /\ UNCHANGED <<gen_pc, gen_possible, gen_out, mine_vars>>

\* list(join_step(itemsets)).
GenJoin ==
    /\ gen_pc = "input"
    /\ gen_possible' = join_step(gen_itemsets)
    /\ gen_pc' = "joined"
    /\ UNCHANGED <<gen_itemsets, gen_out, mine_vars>>

\* list(apriori_gen(itemsets)).
GenPrune ==
    /\ gen_pc = "joined"
    /\ gen_out' = apriori_gen(gen_itemsets)
    /\ gen_pc' = "pruned"
    /\ UNCHANGED <<gen_itemsets, gen_possible, mine_vars>>

GenNext == GenAppend \/ GenJoin \/ GenPrune

GenSpec == GenInit /\ [][GenNext]_vars

\* ------------------------------------------------------- what is claimed
\* The number of supplied records that contain every item of S.
Support(S) ==
    Cardinality({r \in DOMAIN transactions : S \subseteq Range(transactions[r])})

\* The strictly increasing tuple of a set of items.
TupleOf(S) == set_of(CHOOSE t \in [1..Cardinality(S) -> S] : Range(t) = S)

ItemsetsOfLen(n) == {S \in SUBSET Items : Cardinality(S) = n}

LevelEntries(n) ==
    IF n \in DOMAIN large_itemsets THEN Range(large_itemsets[n]) ELSE {}

ValidShape == shape \in {"collection", "generator_fn", "iterable_fn"}

ValidInput == ValidShape /\ valid_min_support(min_support)

\* C1: on valid input each returned level k is exactly the set of the
\* strictly increasing length-k itemsets over the alphabet whose support
\* count / N reaches min_support, N being the number of transactions
\* supplied, each stored with the number of transactions that contain it.
\* Taken for min_support > 0: at min_support = 0 the wording would also ask
\* for the itemsets of the alphabet that no transaction contains.
C1_LevelsAreExactlyTheFrequentItemsets ==
    (pc = "returned" /\ min_support.num > 0) =>
        \A n \in DOMAIN large_itemsets :
            LevelEntries(n) =
                {<<TupleOf(S), Support(S)>> :
                    S \in {S \in ItemsetsOfLen(n) :
                             meets(Support(S), Len(transactions), min_support)}}

\* C2: for both input shapes, mining a source whose records repeat items
\* returns the levels and counts of mining the same source with every
\* record reduced to the set of its items.
C2_DuplicateItemsNeverInflate ==
    (pc = "returned") =>
        large_itemsets =
            mine(shape, [r \in DOMAIN transactions |-> set_of(transactions[r])],
                 min_support, TRUE)

\* C3: the count returned is the number of transactions the source
\* supplied, empty ones included, for the collection form and the callable
\* form alike.
C3_CountIsTheNumberSupplied ==
    (pc \in {"step2", "returned"}) => num_transactions = Len(transactions)

\* C4: invalid input raises before any transaction of the source is read
\* and with no partial result.
C4_ErrorsComeBeforeAnyRead ==
    (pc = "raised") =>
        /\ reads = 0
        /\ large_itemsets = <<>>
        /\ num_transactions = 0

\* C5: valid input (a collection, or a callable returning a fresh iterable,
\* with min_support in [0, 1]) never raises, and what it builds and returns
\* is either nothing or non-empty levels 1..m with m at most the size of
\* the largest transaction, which bounds the turns of the loop.
C5_ValidInputAlwaysReturns ==
    ValidInput =>
        /\ pc # "raised"
        /\ (pc = "step2") => k = Len(large_itemsets) + 1
        /\ \A n \in DOMAIN large_itemsets : large_itemsets[n] # <<>>
        /\ \A n \in DOMAIN large_itemsets :
              \E r \in DOMAIN transactions : n <= Len(transactions[r])

\* C6: in every result, each length-(k-1) subset of an itemset S of level
\* k > 1, got by removing one item, is a key of level k-1 with a count at
\* least that of S.
C6_DownwardClosure ==
    (pc = "returned") =>
        \A n \in DOMAIN large_itemsets :
            (n > 1) =>
                \A e \in Range(large_itemsets[n]) :
                    \A i \in 1..n :
                        \E f \in Range(large_itemsets[n - 1]) :
                            /\ f[1] = removed(e[1], i)
                            /\ f[2] >= e[2]

\* A result with three levels in which an itemset of level 2 is counted
\* strictly less often than one of its items.
C6_Witness ==
    /\ pc = "returned"
    /\ Len(large_itemsets) >= 3
    /\ \E e \in Range(large_itemsets[2]) :
          \E f \in Range(large_itemsets[1]) :
              f[1][1] \in Range(e[1]) /\ f[2] > e[2]

\* C7: with min_support = 0 every non-empty itemset contained in some
\* transaction is in the level of its length with its exact count, and an
\* itemset whose frequency count / N equals min_support is retained.
C7_ThresholdIsInclusive ==
    (pc = "returned") =>
        \A S \in (SUBSET Items) \ {{}} :
            /\ (min_support.num = 0 /\ Support(S) >= 1) =>
                  <<TupleOf(S), Support(S)>> \in LevelEntries(Cardinality(S))
            /\ (Support(S) >= 1
                /\ Support(S) * MsDen = min_support.num * Len(transactions)) =>
                  \E e \in LevelEntries(Cardinality(S)) : e[1] = TupleOf(S)

\* The input join_step is documented for: itemsets of one length, each
\* strictly increasing, the list strictly ascending.
JoinPrecondition(L) ==
    /\ \A i \in DOMAIN L : Len(L[i]) = Len(L[1]) /\ Len(L[i]) >= 1
    /\ \A i \in DOMAIN L : \A p \in 1..(Len(L[i]) - 1) : L[i][p] < L[i][p + 1]
    /\ \A i \in 1..(Len(L) - 1) : TupleLess(L[i], L[i + 1])

\* What joining every pair of distinct itemsets with equal first k - 1
\* items gives.
NaiveJoin(L) ==
    {Front(L[i]) \o <<Last(L[i]), Last(L[j])>> :
        <<i, j>> \in {e \in (DOMAIN L) \X (DOMAIN L) :
                        /\ e[1] # e[2]
                        /\ Front(L[e[1]]) = Front(L[e[2]])
                        /\ Last(L[e[1]]) < Last(L[e[2]])}}

\* The position in L at which the block of candidate c starts.
BlockOf(L, c) ==
    LET same == {i \in DOMAIN L : Front(L[i]) = SubSeq(c, 1, Len(c) - 2)}
    IN CHOOSE i \in same : \A j \in same : i <= j

\* C8: on a sorted, duplicate-free list of strictly increasing length-k
\* itemsets join_step yields exactly the candidates of the all-pairs join,
\* each once, block after block in input order and, within a block, in the
\* sorted order of the joined pair (a, b).
C8_JoinIsTheNaiveJoinInOrder ==
    (gen_pc \in {"joined", "pruned"} /\ JoinPrecondition(gen_itemsets)) =>
        /\ Range(gen_possible) = NaiveJoin(gen_itemsets)
        /\ \A p \in DOMAIN gen_possible : \A q \in DOMAIN gen_possible :
              (p < q) =>
                 LET bp == BlockOf(gen_itemsets, gen_possible[p])
                     bq == BlockOf(gen_itemsets, gen_possible[q])
                     n == Len(gen_possible[p])
                 IN \/ bp < bq
                    \/ /\ bp = bq
                       /\ TupleLess(SubSeq(gen_possible[p], n - 1, n),
                                    SubSeq(gen_possible[q], n - 1, n))

\* A join that yielded more than once from one block and from another block
\* too.
C8_Witness ==
    /\ gen_pc = "joined"
    /\ \E p \in DOMAIN gen_possible : \E q \in DOMAIN gen_possible :
          \E r \in DOMAIN gen_possible :
              /\ p < q
              /\ Front(Front(gen_possible[p])) = Front(Front(gen_possible[q]))
              /\ Front(Front(gen_possible[p])) # Front(Front(gen_possible[r]))

\* C9: a row that matched no candidate at one level is not scanned at any
\* later level and stays retired, and the levels and counts returned are
\* those of the same algorithm scanning every row at every level.
C9_RowSkippingChangesNothing ==
    /\ [][\A r \in DOMAIN use_transaction :
              (~use_transaction[r]) =>
                  /\ r \in DOMAIN use_transaction'
                  /\ ~use_transaction'[r]
                  /\ r \notin scanned']_vars
    /\ []((pc = "returned") =>
             large_itemsets = mine(shape, transactions, min_support, FALSE))

\* Level 3 was counted and installed by a pass that skipped a non-empty row
\* retired at level 2.
C9_Witness ==
    /\ pc = "step2"
    /\ k = 4
    /\ \E r \in DOMAIN use_transaction :
          r \notin scanned /\ Rows[r] # <<>>

\* C10: for a sorted, duplicate-free list L of length-k itemsets
\* prune_step(L, join_step(L)) is, in order, the candidates of the join all
\* of whose k + 1 subsets of length k are in L.
C10_PartialCheckIsTheFullCheck ==
    (gen_pc = "pruned" /\ JoinPrecondition(gen_itemsets)) =>
        LET closed(c) == \A i \in 1..Len(c) :
                            removed(c, i) \in Range(gen_itemsets)
        IN gen_out = SelectSeq(gen_possible, closed)

\* A prune that kept one candidate of the join and dropped another.
C10_Witness ==
    /\ gen_pc = "pruned"
    /\ gen_out # <<>>
    /\ Len(gen_out) < Len(gen_possible)

====
